---- MODULE Spec2Model ----
(***************************************************************************)
(* Model of nmtpytorch/utils/nn.py: get_rnn_hidden_state and mean_pool.    *)
(*                                                                         *)
(* Python values are records tagged with "kind":                           *)
(*   tensor : data is a nested sequence, time-major for a 3-D tensor       *)
(*   tuple  : items is the sequence of the tuple's elements                *)
(*   list   : items is the sequence of the list's elements                 *)
(*   None   : the absent mask                                              *)
(* Entries of the input tensors are floats with integer values, written as *)
(* the integer.  Entries of the pooled tensor are floats written as a      *)
(* fraction [n, d] in lowest terms with d >= 0; d = 0 is the result of a   *)
(* float division by zero: 1/0 is +inf, -1/0 is -inf, 0/0 is nan.          *)
(***************************************************************************)
EXTENDS Integers, Sequences, FiniteSets

\* ---------------------------------------------------------------- bounds
\* A sequence tensor holds at most MaxCells entries (T * B * F).
MaxCells == 4
\* Entries of a sequence tensor range over -1 .. MaxVal.
MaxVal == 3
\* A hidden-state tensor is a vector of 1 .. MaxHLen entries.
MaxHLen == 2
\* A tuple or list handed to get_rnn_hidden_state has 0 .. MaxTuple items.
MaxTuple == 3

Vals == (0 - 1) .. MaxVal
HVals == {0, 1}

VARIABLES fn, arg, pre, pc, ret

vars == <<fn, arg, pre, pc, ret>>

\* ------------------------------------------------------- python values
None == [kind |-> "None"]

Tensor(d) == [kind |-> "tensor", data |-> d]

Tuple(s) == [kind |-> "tuple", items |-> s]

List(s) == [kind |-> "list", items |-> s]

Return(v) == [kind |-> "return", val |-> v]

Raise(e) == [kind |-> "raise", val |-> e]

Pending == [kind |-> "pending", val |-> "-"]

\* isinstance(h, (tuple, list))
isinstance_sequence(h) == h.kind \in {"tuple", "list"}

\* isinstance(h, tuple)
isinstance_tuple(h) == h.kind = "tuple"

\* ------------------------------------------------------ float division
Abs(a) == IF a < 0 THEN 0 - a ELSE a

Sign(a) == IF a > 0 THEN 1 ELSE IF a < 0 THEN 0 - 1 ELSE 0

RECURSIVE Gcd(_, _)
Gcd(a, b) == IF b = 0 THEN a ELSE Gcd(b, a % b)

\* a // b: floor division in place of true division
FloorDiv(a, b) ==
    IF b = 0 THEN [n |-> Sign(a), d |-> 0]
    ELSE [n |-> (Sign(b) * a) \div Abs(b), d |-> 1]

\* a / b on floats holding the integers a and b
FloatDiv(a, b) ==
    IF b = 0 THEN [n |-> Sign(a), d |-> 0]
    ELSE LET g == Gcd(Abs(a), Abs(b))
         IN  [n |-> (Sign(b) * a) \div g, d |-> Abs(b) \div g]

\* ------------------------------------------------------- tensor kernels
RECURSIVE SumSeq(_)
SumSeq(s) == IF s = <<>> THEN 0 ELSE s[1] + SumSeq(Tail(s))

\* t.sum(0) of a 3-D tensor [T,B,F]: a 2-D tensor [B,F]
Sum0_3(t) ==
    LET T == Len(t.data)
        B == Len(t.data[1])
        F == Len(t.data[1][1])
    IN  Tensor([b \in 1..B |-> [f \in 1..F |->
            SumSeq([i \in 1..T |-> t.data[i][b][f]])]])

\* t.size(0) for every batch element: counts every step, valid or not
Size0_2(t) ==
    LET T == Len(t.data)
        B == Len(t.data[1])
    IN  Tensor([b \in 1..B |-> T])

\* t.sum(0) of a 2-D tensor [T,B]: a 1-D tensor [B]
Sum0_2(t) ==
    LET T == Len(t.data)
        B == Len(t.data[1])
    IN  Tensor([b \in 1..B |-> SumSeq([i \in 1..T |-> t.data[i][b]])])

\* t.unsqueeze(0) of a 1-D tensor [B]: a 2-D tensor [1,B]
Unsqueeze0(t) == Tensor(<<t.data>>)

\* t.unsqueeze(1) of a 1-D tensor [B]: a 2-D tensor [B,1]
Unsqueeze1(t) == Tensor([b \in 1..Len(t.data) |-> <<t.data[b]>>])

Max(a, b) == IF a >= b THEN a ELSE b

\* a / b of two 2-D tensors, with broadcasting of dimensions of size 1
TrueDiv(a, b) ==
    LET R1 == Len(a.data)
        C1 == Len(a.data[1])
        R2 == Len(b.data)
        C2 == Len(b.data[1])
        ok == /\ (R1 = R2 \/ R1 = 1 \/ R2 = 1)
              /\ (C1 = C2 \/ C1 = 1 \/ C2 = 1)
    IN  IF ~ok THEN Raise("RuntimeError")
        ELSE Return(Tensor(
               [r \in 1..Max(R1, R2) |-> [c \in 1..Max(C1, C2) |->
                   FloatDiv(a.data[IF R1 = 1 THEN 1 ELSE r][IF C1 = 1 THEN 1 ELSE c],
                            b.data[IF R2 = 1 THEN 1 ELSE r][IF C2 = 1 THEN 1 ELSE c])]]))

\* t.sum(0) / t.size(1): divides by the batch size
MeanBySize1(t) ==
    LET B == Len(t.data[1])
        s == Sum0_3(t)
    IN  Tensor([b \in 1..Len(s.data) |-> [f \in 1..Len(s.data[b]) |->
            FloatDiv(s.data[b][f], B)]])

\* t.mean(0) of a 3-D tensor [T,B,F]: a 2-D tensor [B,F]
Mean0(t) ==
    LET T == Len(t.data)
        s == Sum0_3(t)
    IN  Tensor([b \in 1..Len(s.data) |-> [f \in 1..Len(s.data[b]) |->
            FloatDiv(s.data[b][f], T)]])

\* t * m.unsqueeze(2), written back into t
MulMask(t, m) ==
    Tensor([i \in 1..Len(t.data) |-> [b \in 1..Len(t.data[i]) |->
        [f \in 1..Len(t.data[i][b]) |-> t.data[i][b][f] * m.data[i][b]]]])

\* ------------------------------------------------------------ functions
\* return h[-1] instead of h[0]
get_rnn_hidden_state_last(h) ==
    IF ~isinstance_tuple(h) THEN Return(h)
    ELSE IF Len(h.items) = 0 THEN Raise("IndexError")
    ELSE Return(h.items[Len(h.items)])

\* return h if not isinstance(h, tuple) else h[0]
get_rnn_hidden_state(h) ==
    IF ~isinstance_tuple(h) THEN Return(h)
    ELSE IF Len(h.items) = 0 THEN Raise("IndexError")
    ELSE Return(h.items[1])

\* Each variant of mean_pool yields the call's outcome (ret) and the
\* argument as the call leaves it (data).

\* x.mul_(mask.unsqueeze(2)) before the sum: masks x in place
mean_pool_inplace(data) ==
    LET x == data.items[1]
        mask == data.items[2]
    IN  IF mask.kind # "None"
        THEN [ret  |-> TrueDiv(Sum0_3(MulMask(x, mask)), Unsqueeze1(Sum0_2(mask))),
              data |-> Tuple(<<MulMask(x, mask), mask>>)]
        ELSE [ret |-> Return(Mean0(x)), data |-> Tuple(<<x, mask>>)]

\* (x * mask.unsqueeze(2)).sum(0) as the numerator
mean_pool_masked(data) ==
    LET x == data.items[1]
        mask == data.items[2]
    IN  IF mask.kind # "None"
        THEN [ret  |-> TrueDiv(Sum0_3(MulMask(x, mask)), Unsqueeze1(Sum0_2(mask))),
              data |-> Tuple(<<x, mask>>)]
        ELSE [ret |-> Return(Mean0(x)), data |-> Tuple(<<x, mask>>)]

\* mask.sum(0).clamp(min=1) as the denominator
mean_pool_guarded(data) ==
    LET x == data.items[1]
        mask == data.items[2]
        den == Sum0_2(mask)
        clamped == Tensor([b \in 1..Len(den.data) |-> Max(den.data[b], 1)])
    IN  IF mask.kind # "None"
        THEN [ret  |-> TrueDiv(Sum0_3(x), Unsqueeze1(clamped)),
              data |-> Tuple(<<x, mask>>)]
        ELSE [ret |-> Return(Mean0(x)), data |-> Tuple(<<x, mask>>)]

\* x, mask = data
\* if mask is not None: return x.sum(0) / mask.sum(0).unsqueeze(1)
\* else:                return x.mean(0)
mean_pool(data) ==
    LET x == data.items[1]
        mask == data.items[2]
    IN  IF mask.kind # "None"
        THEN [ret  |-> TrueDiv(Sum0_3(x), Unsqueeze1(Sum0_2(mask))),
              data |-> Tuple(<<x, mask>>)]
        ELSE [ret |-> Return(Mean0(x)), data |-> Tuple(<<x, mask>>)]

\* --------------------------------------------------------------- inputs
PoolShapes ==
    {s \in (1..MaxCells) \X (1..MaxCells) \X (1..MaxCells) :
        s[1] * s[2] * s[3] <= MaxCells}

SeqTensors(T, B, F) == {Tensor(d) : d \in [1..T -> [1..B -> [1..F -> Vals]]]}

MaskTensors(T, B) == {Tensor(d) : d \in [1..T -> [1..B -> {0, 1}]]}

HTensors == UNION {{Tensor(d) : d \in [1..n -> HVals]} : n \in 1..MaxHLen}

HSeqs == UNION {[1..n -> HTensors] : n \in 0..MaxTuple}

\* ------------------------------------------------------- state machine
\* get_rnn_hidden_state is handed a tensor, a tuple of tensors or a list of
\* tensors; mean_pool is handed (x, mask) with x of shape [T,B,F] and mask
\* either None or a 0/1 tensor of shape [T,B].
InitHidden ==
    /\ fn = "get_rnn_hidden_state"
    /\ \/ arg \in HTensors
       \/ \E s \in HSeqs : arg = Tuple(s)
       \/ \E s \in HSeqs : arg = List(s)

InitPool ==
    /\ fn = "mean_pool"
    /\ \E s \in PoolShapes :
         \E x \in SeqTensors(s[1], s[2], s[3]) :
            \/ arg = Tuple(<<x, None>>)
            \/ \E m \in MaskTensors(s[1], s[2]) : arg = Tuple(<<x, m>>)

Init ==
    /\ (InitHidden \/ InitPool)
    /\ pre = arg
    /\ pc = "call"
    /\ ret = Pending

CallGetRnnHiddenState ==
    /\ pc = "call"
    /\ fn = "get_rnn_hidden_state"
    /\ ret' = get_rnn_hidden_state(arg)
    /\ pc' = "done"
    /\ UNCHANGED <<fn, arg, pre>>

CallMeanPool ==
    /\ pc = "call"
    /\ fn = "mean_pool"
    /\ LET r == mean_pool(arg)
       IN  /\ ret' = r.ret
           /\ arg' = r.data
    /\ pc' = "done"
    /\ UNCHANGED <<fn, pre>>

Next == CallGetRnnHiddenState \/ CallMeanPool

Spec == Init /\ [][Next]_vars

\* ------------------------------------------------- what the claims read
HiddenDone == pc = "done" /\ fn = "get_rnn_hidden_state"

PoolDone == pc = "done" /\ fn = "mean_pool"

\* the arguments as they were handed to mean_pool
InX == pre.items[1].data

InMask == pre.items[2]

DimT == Len(InX)

DimB == Len(InX[1])

DimF == Len(InX[1][1])

Steps == 1..DimT

Masked == InMask.kind = "tensor"

ValidSteps(b) == {t \in Steps : InMask.data[t][b] = 1}

InvalidSteps(b) == Steps \ ValidSteps(b)

EveryElementHasValidStep == \A b \in 1..DimB : ValidSteps(b) # {}

AllOnes == \A b \in 1..DimB : ValidSteps(b) = Steps

ZeroPadded ==
    \A b \in 1..DimB : \A t \in InvalidSteps(b) : \A f \in 1..DimF : InX[t][b][f] = 0

\* the sum of x[t][b][f] over the time steps t of S
RECURSIVE TotalOver(_, _, _)
TotalOver(S, b, f) ==
    IF S = {} THEN 0
    ELSE LET t == CHOOSE u \in S : TRUE
         IN  InX[t][b][f] + TotalOver(S \ {t}, b, f)

\* the float q is the exact quotient num / den, den > 0
IsQuotient(q, num, den) == den > 0 /\ q.d > 0 /\ q.n * den = q.d * num

\* the float q is what num / 0 gives: +inf, -inf or nan
IsDivisionByZero(q, num) ==
    /\ q.d = 0
    /\ (num > 0 => q.n = 1)
    /\ (num < 0 => q.n = 0 - 1)
    /\ (num = 0 => q.n = 0)

\* the call returned a tensor of rank 2 and shape [B,F]
ReturnedShapeBF ==
    /\ ret.kind = "return"
    /\ ret.val.kind = "tensor"
    /\ Len(ret.val.data) = DimB
    /\ \A b \in 1..DimB :
         /\ Len(ret.val.data[b]) = DimF
         /\ \A f \in 1..DimF : DOMAIN ret.val.data[b][f] = {"n", "d"}

Out(b, f) == ret.val.data[b][f]

\* ---------------------------------------------------------------- claims

\* C1: with a 0/1 mask that leaves every batch element at least one valid
\* step, the masked result [b][f] is the mean of x[t][b][f] over the valid
\* steps only, whatever x holds at the invalid positions.
MaskedMeanExcludesInvalid ==
    (PoolDone /\ Masked /\ EveryElementHasValidStep) =>
        /\ ReturnedShapeBF
        /\ \A b \in 1..DimB : \A f \in 1..DimF :
             IsQuotient(Out(b, f), TotalOver(ValidSteps(b), b, f),
                        Cardinality(ValidSteps(b)))

\* C2: with an all-ones mask the masked call returns what the unmasked call
\* on the same x returns, in every entry.
AllValidEqualsUnmasked ==
    (PoolDone /\ Masked /\ AllOnes) =>
        ret = mean_pool(Tuple(<<pre.items[1], None>>)).ret

AllValidWitness ==
    /\ PoolDone /\ Masked /\ AllOnes
    /\ DimT >= 2 /\ DimB >= 2
    /\ ret.kind = "return"
    /\ \E b \in 1..DimB : Out(b, 1).d > 1

\* C3: without a mask the result [b][f] is (sum over all t of x[t][b][f]) / T.
UnmaskedIsArithmeticMean ==
    (PoolDone /\ ~Masked) =>
        /\ ReturnedShapeBF
        /\ \A b \in 1..DimB : \A f \in 1..DimF :
             IsQuotient(Out(b, f), TotalOver(Steps, b, f), DimT)

UnmaskedWitness ==
    /\ PoolDone /\ ~Masked
    /\ DimT >= 3
    /\ ret.kind = "return"
    /\ Out(1, 1).d = DimT

\* C4: get_rnn_hidden_state returns the first element of a pair (a, b),
\* whatever b is, and returns a single tensor unchanged.
HiddenPairOrTensor ==
    HiddenDone =>
        /\ (pre.kind = "tuple" /\ Len(pre.items) = 2) =>
               (ret.kind = "return" /\ ret.val = pre.items[1])
        /\ pre.kind = "tensor" => (ret.kind = "return" /\ ret.val = pre)

HiddenPairWitness ==
    /\ HiddenDone
    /\ pre.kind = "tuple" /\ Len(pre.items) = 2
    /\ Len(pre.items[1].data) # Len(pre.items[2].data)
    /\ ret.kind = "return" /\ ret.val = pre.items[1]

\* C5: when the mask column of a batch element sums to zero the call still
\* returns a [B,F] result; that element's row is the division-by-zero value
\* of its sum over all steps, and the other rows are computed as usual.
DegenerateMaskUnguarded ==
    (PoolDone /\ Masked /\ ~EveryElementHasValidStep) =>
        /\ ReturnedShapeBF
        /\ \A b \in 1..DimB : \A f \in 1..DimF :
             IF ValidSteps(b) = {}
             THEN IsDivisionByZero(Out(b, f), TotalOver(Steps, b, f))
             ELSE IsQuotient(Out(b, f), TotalOver(Steps, b, f),
                             Cardinality(ValidSteps(b)))

DegenerateMaskWitness ==
    /\ PoolDone /\ Masked
    /\ DimB >= 2 /\ DimT >= 2
    /\ ValidSteps(1) = {} /\ ValidSteps(2) # {}
    /\ TotalOver(Steps, 1, 1) < 0
    /\ ret.kind = "return"
    /\ Out(1, 1) = [n |-> 0 - 1, d |-> 0]
    /\ Out(2, 1).d > 0

\* C6: in the masked and in the unmasked branch the result has rank 2 and
\* shape [B,F], B and F being the input's batch and feature sizes.
ShapeInvariant == PoolDone => ReturnedShapeBF

ShapeWitness ==
    /\ PoolDone /\ Masked
    /\ DimT >= 2 /\ DimB >= 2 /\ DimF = 1
    /\ ReturnedShapeBF

\* C7: after a call of either function the arguments hold exactly the
\* values they held before the call.
InputsNotMutated == pc = "done" => arg = pre

InputsNotMutatedWitness ==
    /\ PoolDone /\ Masked
    /\ \E b \in 1..DimB : \E t \in InvalidSteps(b) : InX[t][b][1] # 0
    /\ arg = pre

\* C8: with a mask the result [b][f] is exactly (sum over ALL steps t of
\* x[t][b][f]) / (sum over t of mask[t][b]): the mask enters the denominator
\* only, and one denominator per batch element serves every feature.
MaskedAlgorithm ==
    (PoolDone /\ Masked) =>
        /\ ReturnedShapeBF
        /\ \A b \in 1..DimB : \A f \in 1..DimF :
             LET num == TotalOver(Steps, b, f)
                 den == Cardinality(ValidSteps(b))
             IN  IF den = 0 THEN IsDivisionByZero(Out(b, f), num)
                 ELSE IsQuotient(Out(b, f), num, den)

MaskedAlgorithmWitness ==
    /\ PoolDone /\ Masked
    /\ DimF >= 2 /\ DimT >= 2
    /\ InvalidSteps(1) # {} /\ ValidSteps(1) # {}
    /\ TotalOver(InvalidSteps(1), 1, 2) # 0
    /\ ReturnedShapeBF
    /\ IsQuotient(Out(1, 2), TotalOver(Steps, 1, 2), Cardinality(ValidSteps(1)))

\* C9: with every batch element having a valid step, the masked result
\* [b][f] exceeds the mean over the valid steps by (sum of x over the invalid
\* steps) / (number of valid steps); hence it is that mean when x is zero at
\* every invalid position.
ZeroPaddingPrecondition ==
    (PoolDone /\ Masked /\ EveryElementHasValidStep) =>
        /\ ReturnedShapeBF
        /\ \A b \in 1..DimB : \A f \in 1..DimF :
             LET cnt == Cardinality(ValidSteps(b))
                 valid == TotalOver(ValidSteps(b), b, f)
                 invalid == TotalOver(InvalidSteps(b), b, f)
             IN  /\ Out(b, f).d > 0
                 /\ Out(b, f).n * cnt - Out(b, f).d * valid = Out(b, f).d * invalid
                 /\ ZeroPadded => IsQuotient(Out(b, f), valid, cnt)

ZeroPaddingWitness ==
    /\ PoolDone /\ Masked /\ EveryElementHasValidStep /\ ZeroPadded
    /\ InvalidSteps(1) # {}
    /\ TotalOver(ValidSteps(1), 1, 1) > 0
    /\ ReturnedShapeBF
    /\ IsQuotient(Out(1, 1), TotalOver(ValidSteps(1), 1, 1), Cardinality(ValidSteps(1)))

\* C10: get_rnn_hidden_state selects on "is a tuple": a non-empty tuple of
\* any length yields its element 0, a non-tuple (a tensor, a list) is
\* returned unchanged, and the empty tuple is the only input that raises.
HiddenSelectsOnTuple ==
    HiddenDone =>
        /\ (pre.kind = "tuple" /\ Len(pre.items) >= 1) =>
               (ret.kind = "return" /\ ret.val = pre.items[1])
        /\ pre.kind # "tuple" => (ret.kind = "return" /\ ret.val = pre)
        /\ ret.kind = "raise" <=> (pre.kind = "tuple" /\ Len(pre.items) = 0)
        /\ ret.kind = "raise" => ret.val = "IndexError"

HiddenSelectsWitness ==
    /\ HiddenDone
    /\ pre.kind = "list" /\ Len(pre.items) = 2
    /\ ret.kind = "return" /\ ret.val = pre
====
